---- MODULE Spec2Model ----
(***************************************************************************)
(* Model of the chess library in src/src/lib.rs: the Piece and Move        *)
(* encodings, the mailbox, the move generator, the legality filter, the    *)
(* attack predicate, Game::make_move, Game::make_move_from_to and          *)
(* Game::get_game_state.  A Piece is the record of the three bit fields of *)
(* the packed integer, a Move the record of its three bit fields, a Vec    *)
(* a sequence, the board a function on 0..63.                              *)
(***************************************************************************)
EXTENDS Integers, Sequences, FiniteSets, TLC

\* ---------------------------------------------------------------- constants
EMPTY == 0
PAWN == 1
KNIGHT == 2
BISHOP == 3
ROOK == 4
QUEEN == 5
KING == 6

WHITE == 0
BLACK == 1

HAS_MOVED == 1

QUIET_MOVE == 0
DOUBLE_PAWN_PUSH == 1
KING_CASTLE == 2
QUEEN_CASTLE == 3
CAPTURE == 4
EP_CAPTURE == 5
KNIGHT_PROMOTION == 8
BISHOP_PROMOTION == 9
ROOK_PROMOTION == 10
QUEEN_PROMOTION == 11
KNIGHT_PROMOTION_CAP == 12
BISHOP_PROMOTION_CAP == 13
ROOK_PROMOTION_CAP == 14
QUEEN_PROMOTION_CAP == 15

Squares == 0 .. 63

\* x & CAPTURE # 0 and x & (1 << 3) # 0 on a 4-bit value
BitSet(x, b) == (x \div b) % 2 = 1

\* Concatenation of a sequence of sequences, in order (Vec::append in a loop)
RECURSIVE Flatten(_)
Flatten(ss) == IF ss = << >> THEN << >> ELSE Head(ss) \o Flatten(Tail(ss))

\* ---------------------------------------------------------------- Piece
PieceNew(piece_type, piece_color, piece_flags) ==
    [type |-> piece_type % 8, color |-> piece_color % 2, flags |-> piece_flags % 4]

PieceEmpty == [type |-> 0, color |-> 0, flags |-> 0]

get_type(p) == p.type
get_color(p) == p.color
piece_get_flags(p) == p.flags

set_type(p, piece_type) == [p EXCEPT !.type = piece_type % 8]

set_flags_dropped(p, piece_flags) == p

set_flags(p, piece_flags) == [p EXCEPT !.flags = piece_flags % 4]

has_moved(p) == piece_get_flags(p) % 2 # 0

\* ---------------------------------------------------------------- Move
MoveNew(from, to, flags) ==
    [from |-> from % 64, to |-> to % 64, flags |-> flags % 16]

get_to(mv) == mv.to
get_from(mv) == mv.from
get_flags(mv) == mv.flags

is_capture(mv) == BitSet(get_flags(mv), CAPTURE)
is_promotion(mv) == BitSet(get_flags(mv), 8)
is_ep_capture(mv) == get_flags(mv) = EP_CAPTURE
is_castle(mv) ==
    (IF get_flags(mv) % 2 = 0 THEN get_flags(mv) + 1 ELSE get_flags(mv)) = QUEEN_CASTLE
is_double_pawn_push(mv) == get_flags(mv) = DOUBLE_PAWN_PUSH
is_queen_castle(mv) == get_flags(mv) = QUEEN_CASTLE
is_king_castle(mv) == get_flags(mv) = KING_CASTLE

\* ---------------------------------------------------------------- Mailbox
mailbox64 ==
    << 21, 22, 23, 24, 25, 26, 27, 28,
       31, 32, 33, 34, 35, 36, 37, 38,
       41, 42, 43, 44, 45, 46, 47, 48,
       51, 52, 53, 54, 55, 56, 57, 58,
       61, 62, 63, 64, 65, 66, 67, 68,
       71, 72, 73, 74, 75, 76, 77, 78,
       81, 82, 83, 84, 85, 86, 87, 88,
       91, 92, 93, 94, 95, 96, 97, 98 >>

mailbox120 ==
    << -1, -1, -1, -1, -1, -1, -1, -1, -1, -1,
       -1, -1, -1, -1, -1, -1, -1, -1, -1, -1,
       -1,  0,  1,  2,  3,  4,  5,  6,  7, -1,
       -1,  8,  9, 10, 11, 12, 13, 14, 15, -1,
       -1, 16, 17, 18, 19, 20, 21, 22, 23, -1,
       -1, 24, 25, 26, 27, 28, 29, 30, 31, -1,
       -1, 32, 33, 34, 35, 36, 37, 38, 39, -1,
       -1, 40, 41, 42, 43, 44, 45, 46, 47, -1,
       -1, 48, 49, 50, 51, 52, 53, 54, 55, -1,
       -1, 56, 57, 58, 59, 60, 61, 62, 63, -1,
       -1, -1, -1, -1, -1, -1, -1, -1, -1, -1,
       -1, -1, -1, -1, -1, -1, -1, -1, -1, -1 >>

get_square_with_offset_flat(from, offset) ==
    LET dr == (offset + 105) \div 10 - 10
        to == from + 8 * dr + (offset - 10 * dr)
    IN  IF to \in 0 .. 63 THEN to ELSE -1

\* Rust arrays are indexed from 0, sequences from 1
get_square_with_offset(from, offset) ==
    mailbox120[(mailbox64[from + 1] + offset) + 1]

\* ---------------------------------------------------------------- MoveGenerator tables
\* piece_offset[t] is the row of index t - 1 of the Rust table
piece_offset ==
    << <<   0,   0,   0,  0, 0,  0,  0,  0 >>,
       << -21, -19, -12, -8, 8, 12, 19, 21 >>,
       << -11,  -9,   9, 11, 0,  0,  0,  0 >>,
       << -10,  -1,   1, 10, 0,  0,  0,  0 >>,
       << -11, -10,  -9, -1, 1,  9, 10, 11 >>,
       << -11, -10,  -9, -1, 1,  9, 10, 11 >> >>

piece_offsets == << 0, 8, 4, 4, 8, 8 >>

sliding_piece == << FALSE, FALSE, TRUE, TRUE, TRUE, FALSE >>

\* ---------------------------------------------------------------- Game helpers
get_column(square) == square % 8
get_row(square) == square \div 8

\* ---------------------------------------------------------------- pseudo-legal generation
pawn_can_capture_left_unbounded(game, next_square) ==
    /\ get_color(game.board[next_square - 1]) # game.turn
    /\ get_type(game.board[next_square - 1]) # EMPTY

pawn_can_capture_left(game, next_square) ==
    /\ get_column(next_square) # 0
    /\ get_color(game.board[next_square - 1]) # game.turn
    /\ get_type(game.board[next_square - 1]) # EMPTY

pawn_can_capture_right(game, next_square) ==
    /\ get_column(next_square) # 7
    /\ get_color(game.board[next_square + 1]) # game.turn
    /\ get_type(game.board[next_square + 1]) # EMPTY

\* The four promotion moves appended together, in the order of the source
PromotionMoves(square, to, knight_flag) ==
    << MoveNew(square, to, knight_flag), MoveNew(square, to, knight_flag + 1),
       MoveNew(square, to, knight_flag + 2), MoveNew(square, to, knight_flag + 3) >>

generate_pawn_moves(game, square) ==
    LET forward_offset == IF game.turn = WHITE THEN -8 ELSE 8
        next_square == square + forward_offset
        last_row == get_row(next_square) = 0 \/ get_row(next_square) = 7
        captures ==
            IF last_row
            THEN (IF pawn_can_capture_left(game, next_square)
                  THEN PromotionMoves(square, next_square - 1, KNIGHT_PROMOTION_CAP)
                  ELSE << >>)
                 \o
                 (IF pawn_can_capture_right(game, next_square)
                  THEN PromotionMoves(square, next_square + 1, KNIGHT_PROMOTION_CAP)
                  ELSE << >>)
            ELSE (IF pawn_can_capture_left(game, next_square)
                  THEN << MoveNew(square, next_square - 1, CAPTURE) >>
                  ELSE << >>)
                 \o
                 (IF pawn_can_capture_right(game, next_square)
                  THEN << MoveNew(square, next_square + 1, CAPTURE) >>
                  ELSE << >>)
        next_next == next_square + forward_offset
        pushes ==
            IF get_type(game.board[next_square]) = EMPTY
            THEN IF last_row
                 THEN PromotionMoves(square, next_square, KNIGHT_PROMOTION)
                 ELSE << MoveNew(square, next_square, QUIET_MOVE) >>
                      \o
                      (IF (get_row(square) = 1 \/ get_row(square) = 6)
                          /\ get_type(game.board[next_next]) = EMPTY
                       THEN << MoveNew(square, next_next, DOUBLE_PAWN_PUSH) >>
                       ELSE << >>)
            ELSE << >>
        en_passant ==
            IF game.possible_ep_capture < 64
            THEN (IF get_column(square) # 0 /\ square - 1 = game.possible_ep_capture
                  THEN << MoveNew(square, next_square - 1, EP_CAPTURE) >>
                  ELSE << >>)
                 \o
                 (IF get_column(square) # 7 /\ square + 1 = game.possible_ep_capture
                  THEN << MoveNew(square, next_square + 1, EP_CAPTURE) >>
                  ELSE << >>)
            ELSE << >>
    IN captures \o pushes \o en_passant

\* The inner loop of generate_non_pawn_moves: one ray from `square`, now at `at`
RECURSIVE ray_moves(_, _, _, _)
ray_moves(game, square, at, offset) ==
    LET to_square == get_square_with_offset(at, offset)
    IN  IF to_square = -1 THEN << >>
        ELSE IF get_type(game.board[to_square]) # EMPTY
             THEN IF get_color(game.board[to_square]) # game.turn
                  THEN << MoveNew(square, to_square, CAPTURE) >>
                  ELSE << >>
             ELSE << MoveNew(square, to_square, QUIET_MOVE) >>
                  \o
                  (IF ~sliding_piece[get_type(game.board[square])]
                   THEN << >>
                   ELSE ray_moves(game, square, to_square, offset))

\* for j in 0..n: whether game.board[square + dir * (j + 1)] are all EMPTY
squares_between_empty(game, square, dir, n) ==
    \A j \in 0 .. n - 1 : get_type(game.board[square + dir * (j + 1)]) = EMPTY

castle_moves(game, square) ==
    IF get_type(game.board[square]) = KING /\ ~has_moved(game.board[square])
    THEN LET king_rook == IF game.turn = WHITE THEN game.board[7 * 8 + 7]
                                               ELSE game.board[0 * 8 + 7]
             queen_rook == IF game.turn = WHITE THEN game.board[7 * 8]
                                                ELSE game.board[0 * 8]
         IN  (IF /\ get_type(queen_rook) = ROOK
                 /\ ~has_moved(queen_rook)
                 /\ squares_between_empty(game, square, -1, 3)
              THEN << MoveNew(square, square - 2, QUEEN_CASTLE) >>
              ELSE << >>)
             \o
             (IF /\ get_type(king_rook) = ROOK
                 /\ ~has_moved(king_rook)
                 /\ squares_between_empty(game, square, 1, 2)
              THEN << MoveNew(square, square + 2, KING_CASTLE) >>
              ELSE << >>)
    ELSE << >>

generate_non_pawn_moves(game, square) ==
    LET t == get_type(game.board[square])
    IN  Flatten([j \in 1 .. piece_offsets[t] |->
                    ray_moves(game, square, square, piece_offset[t][j])])
        \o castle_moves(game, square)

generate_pseudo_legal_moves_any_color(game, square) ==
    IF get_type(game.board[square]) = EMPTY
    THEN << >>
    ELSE IF get_type(game.board[square]) = PAWN
         THEN generate_pawn_moves(game, square)
         ELSE generate_non_pawn_moves(game, square)

generate_pseudo_legal_moves(game, square) ==
    IF get_type(game.board[square]) = EMPTY \/ get_color(game.board[square]) # game.turn
    THEN << >>
    ELSE IF get_type(game.board[square]) = PAWN
         THEN generate_pawn_moves(game, square)
         ELSE generate_non_pawn_moves(game, square)
\* ---------------------------------------------------------------- attack predicate
\* One ray of is_attacked cast from the attacked square, now at `at`, for one piece type
RECURSIVE ray_attacked(_, _, _, _, _)
ray_attacked(game, at, color, piece, offset) ==
    LET to_square == get_square_with_offset(at, offset)
    IN  IF to_square = -1 THEN FALSE
        ELSE IF get_type(game.board[to_square]) # EMPTY
             THEN get_color(game.board[to_square]) # color
                  /\ get_type(game.board[to_square]) = piece
             ELSE IF ~sliding_piece[piece]
                  THEN FALSE
                  ELSE ray_attacked(game, to_square, color, piece, offset)

pawn_attacked(game, square, color) ==
    IF ~((color = WHITE /\ get_row(square) <= 1) \/ (color = BLACK /\ get_row(square) >= 6))
    THEN LET forward_offset == IF color = WHITE THEN -8 ELSE 8
             possible_pawn_cap1 == game.board[(square + forward_offset) + 1]
             possible_pawn_cap2 == game.board[(square + forward_offset) - 1]
         IN  \/ (get_type(possible_pawn_cap1) = PAWN /\ get_color(possible_pawn_cap1) # color)
             \/ (get_type(possible_pawn_cap2) = PAWN /\ get_color(possible_pawn_cap2) # color)
    ELSE FALSE

is_attacked(game, square, color) ==
    \/ \E piece \in KNIGHT .. KING :
          \E i \in 1 .. piece_offsets[piece] :
             ray_attacked(game, square, color, piece, piece_offset[piece][i])
    \/ pawn_attacked(game, square, color)

\* ---------------------------------------------------------------- Game::make_move
Xor1_kept(x) == x

Xor1(x) == IF x % 2 = 0 THEN x + 1 ELSE x - 1

promoted_type_always_queen(promotion_type, old_type) == QUEEN

promoted_type_kept(promotion_type, old_type) == old_type

promoted_type(promotion_type, old_type) ==
    IF promotion_type = QUEEN_PROMOTION THEN QUEEN
    ELSE IF promotion_type = ROOK_PROMOTION THEN ROOK
    ELSE IF promotion_type = KNIGHT_PROMOTION THEN KNIGHT
    ELSE IF promotion_type = BISHOP_PROMOTION THEN BISHOP
    ELSE old_type

\* flags & !CAPTURE
promotion_type_of(mv) ==
    IF is_capture(mv) THEN get_flags(mv) - CAPTURE ELSE get_flags(mv)

captured_square_destination(mv) == get_to(mv)

captured_square_of(mv) ==
    IF is_ep_capture(mv)
    THEN get_from(mv) + (get_column(get_to(mv)) - get_column(get_from(mv)))
    ELSE get_to(mv)

rook_move_king_side(mv) == << get_from(mv) + 3, get_from(mv) + 1 >>

rook_move_of(mv) ==
    IF is_queen_castle(mv)
    THEN << get_from(mv) - 4, get_from(mv) - 1 >>
    ELSE << get_from(mv) + 3, get_from(mv) + 1 >>

king_square_stale(game, mv) == game.king_square

king_square_after(game, mv) ==
    IF get_type(game.board[get_from(mv)]) = KING
    THEN [game.king_square EXCEPT ![game.turn] = get_to(mv)]
    ELSE game.king_square

half_move_clock_kept_on_capture(game, mv) ==
    IF get_type(game.board[get_from(mv)]) = PAWN THEN 0 ELSE game.half_move_clock + 1

\* half_move_clock += 1; then 0 for a pawn; then 0 for a capture
half_move_clock_after(game, mv) ==
    LET clock1 == game.half_move_clock + 1
        clock2 == IF get_type(game.board[get_from(mv)]) = PAWN THEN 0 ELSE clock1
    IN  IF is_capture(mv) THEN 0 ELSE clock2

possible_ep_capture_kept(game, mv) ==
    IF is_double_pawn_push(mv) THEN get_to(mv) ELSE game.possible_ep_capture

\* possible_ep_capture = 64 when it was below 64; then mv.get_to() for a double push
possible_ep_capture_after(game, mv) ==
    LET ep1 == IF game.possible_ep_capture < 64 THEN 64 ELSE game.possible_ep_capture
    IN  IF is_double_pawn_push(mv) THEN get_to(mv) ELSE ep1

make_move(game, mv) ==
    LET from == get_from(mv)
        to == get_to(mv)
        king1 == king_square_after(game, mv)
        clock3 == half_move_clock_after(game, mv)
        board1 == IF is_capture(mv)
                  THEN [game.board EXCEPT ![captured_square_of(mv)] = set_type(@, EMPTY)]
                  ELSE game.board
        ep2 == possible_ep_capture_after(game, mv)
        board2 == [board1 EXCEPT ![to] = board1[from]]
        board3 == [board2 EXCEPT ![from] = set_type(@, EMPTY)]
        board4 == [board3 EXCEPT ![to] = set_flags(@, HAS_MOVED)]
        rook_move == rook_move_of(mv)
        board5 == IF is_castle(mv)
                  THEN [[board4 EXCEPT ![rook_move[2]] = board4[rook_move[1]]]
                           EXCEPT ![rook_move[1]] = set_type(@, EMPTY)]
                  ELSE board4
        board6 == IF is_promotion(mv)
                  THEN [board5 EXCEPT ![to] =
                          set_type(@, promoted_type(promotion_type_of(mv), get_type(@)))]
                  ELSE board5
    IN  [board |-> board6,
         turn |-> Xor1(game.turn),
         possible_ep_capture |-> ep2,
         king_square |-> king1,
         half_move_clock |-> clock3]

\* ---------------------------------------------------------------- legality filter
castle_through_attack_ignored(game, mv) == FALSE

castle_through_attack(game, mv) ==
    LET square_besides_king ==
            IF is_queen_castle(mv) THEN get_from(mv) - 1 ELSE get_from(mv) + 1
    IN  \/ is_attacked(game, get_from(mv), game.turn)
        \/ is_attacked(game, square_besides_king, game.turn)

leaves_king_attacked_ignored(game, mv) == FALSE

leaves_king_attacked(game, mv) ==
    LET game_copy == make_move(game, mv)
    IN  is_attacked(game_copy, game_copy.king_square[Xor1(game_copy.turn)],
                    Xor1(game_copy.turn))

\* TRUE when the loop body reaches legal_moves.push(mv)
keeps_move(game, mv) ==
    /\ ~(is_castle(mv) /\ castle_through_attack(game, mv))
    /\ ~leaves_king_attacked(game, mv)

filter_pseudo_legal_moves(game, pseudo_legal_moves) ==
    LET Keep(mv) == keeps_move(game, mv)
    IN  SelectSeq(pseudo_legal_moves, Keep)

\* ---------------------------------------------------------------- Game queries
get_all_legal_moves(game) ==
    filter_pseudo_legal_moves(game,
        Flatten([i \in 1 .. 64 |->
            IF get_type(game.board[i - 1]) # EMPTY /\ get_color(game.board[i - 1]) = game.turn
            THEN generate_pseudo_legal_moves(game, i - 1)
            ELSE << >>]))

get_legal_moves(game, square) ==
    filter_pseudo_legal_moves(game, generate_pseudo_legal_moves(game, square))

\* n_pieces[color][0] and n_pieces[color][t]
n_pieces(game, color, t) ==
    Cardinality({sq \in Squares :
        /\ get_type(game.board[sq]) # EMPTY
        /\ get_color(game.board[sq]) = color
        /\ (t = 0 \/ get_type(game.board[sq]) = t)})

drawn_material_two_minors(game, color) ==
    \/ n_pieces(game, color, 0) = 1
    \/ (n_pieces(game, color, 0) = 2
         /\ (n_pieces(game, color, BISHOP) = 1 \/ n_pieces(game, color, KNIGHT) = 1))
    \/ n_pieces(game, color, 0) = 3

drawn_material(game, color) ==
    \/ n_pieces(game, color, 0) = 1
    \/ (n_pieces(game, color, 0) = 2
         /\ (n_pieces(game, color, BISHOP) = 1 \/ n_pieces(game, color, KNIGHT) = 1))
    \/ (n_pieces(game, color, 0) = 3 /\ n_pieces(game, color, KNIGHT) = 2)

fifty_move_exceeded(game) == game.half_move_clock > 100

fifty_move_reached(game) == game.half_move_clock >= 100

get_game_state(game) ==
    LET attacked == is_attacked(game, game.king_square[game.turn], game.turn)
        legal_moves == get_all_legal_moves(game)
    IN  IF attacked /\ Len(legal_moves) = 0 THEN "Checkmate"
        ELSE IF ~attacked /\ Len(legal_moves) = 0 THEN "Stalemate"
        ELSE IF /\ n_pieces(game, WHITE, 0) <= 3
                /\ n_pieces(game, BLACK, 0) <= 3
                /\ drawn_material(game, WHITE)
                /\ drawn_material(game, BLACK)
             THEN "InsufficientMaterial"
        ELSE IF fifty_move_reached(game) THEN "DrawBy50MoveRule"
        ELSE IF attacked THEN "Check"
        ELSE "InProgress"

\* ---------------------------------------------------------------- Game::make_move_from_to
promotion_mismatch_never(mv, promotion) == FALSE

promotion_mismatch_unmasked(mv, promotion) ==
    is_promotion(mv) /\ get_flags(mv) # promotion

\* mv.is_promotion() && (mv.get_flags() & !CAPTURE) != promotion
promotion_mismatch(mv, promotion) ==
    is_promotion(mv) /\ promotion_type_of(mv) # promotion

\* The for loop over legal_moves from index i on; the result is the new game and the
\* returned bool
RECURSIVE from_to_loop(_, _, _, _, _, _)
from_to_loop(game, legal_moves, i, from, to, promotion) ==
    IF i > Len(legal_moves) THEN [game |-> game, ret |-> FALSE, mv |-> << >>]
    ELSE LET mv == legal_moves[i]
         IN  IF get_from(mv) = from /\ get_to(mv) = to
             THEN IF promotion_mismatch(mv, promotion)
                  THEN from_to_loop(game, legal_moves, i + 1, from, to, promotion)
                  ELSE [game |-> make_move(game, mv), ret |-> TRUE, mv |-> << mv >>]
             ELSE from_to_loop(game, legal_moves, i + 1, from, to, promotion)

make_move_from_to(game, from, to, promotion) ==
    from_to_loop(game, get_all_legal_moves(game), 1, from, to, promotion)

\* ---------------------------------------------------------------- board indices
\* The indices at which generate_pawn_moves, with pawn_can_capture_left and
\* pawn_can_capture_right, reads game.board for the pawn on `square`; nothing is read
\* after an index outside the board
pawn_board_indices(game, square) ==
    LET forward_offset == IF game.turn = WHITE THEN -8 ELSE 8
        next_square == square + forward_offset
        next_next == next_square + forward_offset
        last_row == get_row(next_square) = 0 \/ get_row(next_square) = 7
    IN  IF next_square \notin Squares THEN {next_square}
        ELSE {next_square}
             \cup (IF get_column(next_square) # 0 THEN {next_square - 1} ELSE {})
             \cup (IF get_column(next_square) # 7 THEN {next_square + 1} ELSE {})
             \cup (IF /\ get_type(game.board[next_square]) = EMPTY
                      /\ ~last_row
                      /\ (get_row(square) = 1 \/ get_row(square) = 6)
                   THEN {next_next} ELSE {})

\* The indices read by the castling part of generate_non_pawn_moves for the piece on
\* `square`: the two corners, then the squares beside the king up to the first that
\* is occupied
RECURSIVE beside_king_indices(_, _, _, _, _)
beside_king_indices(game, square, dir, j, n) ==
    IF j >= n THEN {}
    ELSE LET at == square + dir * (j + 1)
         IN  IF at \notin Squares THEN {at}
             ELSE IF get_type(game.board[at]) # EMPTY THEN {at}
             ELSE {at} \cup beside_king_indices(game, square, dir, j + 1, n)

castle_board_indices(game, square) ==
    IF get_type(game.board[square]) = KING /\ ~has_moved(game.board[square])
    THEN LET king_corner == IF game.turn = WHITE THEN 7 * 8 + 7 ELSE 0 * 8 + 7
             queen_corner == IF game.turn = WHITE THEN 7 * 8 ELSE 0 * 8
             king_rook == game.board[king_corner]
             queen_rook == game.board[queen_corner]
         IN  {king_corner, queen_corner}
             \cup (IF get_type(queen_rook) = ROOK /\ ~has_moved(queen_rook)
                   THEN beside_king_indices(game, square, -1, 0, 3) ELSE {})
             \cup (IF get_type(king_rook) = ROOK /\ ~has_moved(king_rook)
                   THEN beside_king_indices(game, square, 1, 0, 2) ELSE {})
    ELSE {}

\* The indices read by the pawn part of is_attacked(game, square, color)
attack_pawn_indices(square, color) ==
    IF ~((color = WHITE /\ get_row(square) <= 1) \/ (color = BLACK /\ get_row(square) >= 6))
    THEN LET forward_offset == IF color = WHITE THEN -8 ELSE 8
         IN  {(square + forward_offset) + 1, (square + forward_offset) - 1}
    ELSE {}

\* The indices at which make_move reads or writes self.board
make_move_indices(mv) ==
    {get_from(mv), get_to(mv)}
    \cup (IF is_capture(mv) THEN {captured_square_of(mv)} ELSE {})
    \cup (IF is_castle(mv) THEN {rook_move_of(mv)[1], rook_move_of(mv)[2]} ELSE {})

\* ---------------------------------------------------------------- position construction
\* A FEN string is given by its fields: rows (8 sequences of characters), turn,
\* castle (a sequence of characters), ep (a sequence of characters) and clock.
piece_of_char(ch) ==
    CASE ch = "r" -> PieceNew(ROOK, BLACK, EMPTY)
      [] ch = "R" -> PieceNew(ROOK, WHITE, EMPTY)
      [] ch = "b" -> PieceNew(BISHOP, BLACK, EMPTY)
      [] ch = "B" -> PieceNew(BISHOP, WHITE, EMPTY)
      [] ch = "k" -> PieceNew(KING, BLACK, EMPTY)
      [] ch = "K" -> PieceNew(KING, WHITE, EMPTY)
      [] ch = "q" -> PieceNew(QUEEN, BLACK, EMPTY)
      [] ch = "Q" -> PieceNew(QUEEN, WHITE, EMPTY)
      [] ch = "n" -> PieceNew(KNIGHT, BLACK, EMPTY)
      [] ch = "N" -> PieceNew(KNIGHT, WHITE, EMPTY)
      [] ch = "p" -> PieceNew(PAWN, BLACK, EMPTY)
      [] ch = "P" -> PieceNew(PAWN, WHITE, EMPTY)

is_piece_char(ch) ==
    ch \in {"r", "R", "b", "B", "k", "K", "q", "Q", "n", "N", "p", "P"}

\* char::to_digit(10).unwrap() on the digits a row can hold
to_digit(ch) ==
    CASE ch = "1" -> 1 [] ch = "2" -> 2 [] ch = "3" -> 3 [] ch = "4" -> 4
      [] ch = "5" -> 5 [] ch = "6" -> 6 [] ch = "7" -> 7 [] ch = "8" -> 8

\* The while loop over one row, at character `cur` and column `collumn`
RECURSIVE fen_row(_, _, _, _, _)
fen_row(board, row, chars, collumn, cur) ==
    IF collumn < 8
    THEN LET ch == chars[cur + 1]
         IN  IF is_piece_char(ch)
             THEN fen_row([board EXCEPT ![row * 8 + collumn] = piece_of_char(ch)],
                          row, chars, collumn + 1, cur + 1)
             ELSE fen_row(board, row, chars, collumn + to_digit(ch), cur + 1)
    ELSE board

RECURSIVE fen_rows(_, _, _)
fen_rows(board, board_rows, row) ==
    IF row < 8
    THEN fen_rows(fen_row(board, row, board_rows[row + 1], 0, 0), board_rows, row + 1)
    ELSE board

convert_algebraic_notation_to_number(alg_not) ==
    (CASE alg_not[1] = "a" -> 0 [] alg_not[1] = "b" -> 1 [] alg_not[1] = "c" -> 2
       [] alg_not[1] = "d" -> 3 [] alg_not[1] = "e" -> 4 [] alg_not[1] = "f" -> 5
       [] alg_not[1] = "g" -> 6 [] alg_not[1] = "h" -> 7 [] OTHER -> 0)
    + 8 * (CASE alg_not[2] = "1" -> 7 [] alg_not[2] = "2" -> 6 [] alg_not[2] = "3" -> 5
             [] alg_not[2] = "4" -> 4 [] alg_not[2] = "5" -> 3 [] alg_not[2] = "6" -> 2
             [] alg_not[2] = "7" -> 1 [] alg_not[2] = "8" -> 0 [] OTHER -> 0)

contains(chars, ch) == \E i \in 1 .. Len(chars) : chars[i] = ch

\* The last square, in index order, holding a king of that color; 0 without one
fen_king_square(board, color) ==
    LET kings == {i \in Squares : get_type(board[i]) = KING /\ get_color(board[i]) = color}
    IN  IF kings = {} THEN 0 ELSE CHOOSE i \in kings : \A j \in kings : j <= i

fen_castle_flags(board, castle_rights) ==
    [i \in Squares |->
        IF \/ (i = 7 * 8 + 7 /\ ~contains(castle_rights, "K"))
           \/ (i = 7 * 8 /\ ~contains(castle_rights, "Q"))
           \/ (i = 0 * 8 + 7 /\ ~contains(castle_rights, "k"))
           \/ (i = 0 * 8 /\ ~contains(castle_rights, "q"))
        THEN set_flags(board[i], HAS_MOVED)
        ELSE board[i]]

fen_ep_capture(ep) ==
    IF Len(ep) = 2
    THEN LET sq == convert_algebraic_notation_to_number(ep)
         IN  IF sq > 32 THEN sq - 8 ELSE sq + 8
    ELSE 64

convert_fen_to_game(fen) ==
    LET board == fen_rows([i \in Squares |-> PieceEmpty], fen.rows, 0)
    IN  [board |-> fen_castle_flags(board, fen.castle),
         turn |-> CASE fen.turn = "w" -> WHITE [] fen.turn = "b" -> BLACK [] OTHER -> EMPTY,
         possible_ep_capture |-> fen_ep_capture(fen.ep),
         king_square |-> [c \in {WHITE, BLACK} |-> fen_king_square(board, c)],
         half_move_clock |-> fen.clock]

\* "rnbqkbnr/pppppppp/8/8/8/8/PPPPPPPP/RNBQKBNR w KQkq - 0 1"
starting_position ==
    convert_fen_to_game(
        [rows |-> << << "r", "n", "b", "q", "k", "b", "n", "r" >>,
                     << "p", "p", "p", "p", "p", "p", "p", "p" >>,
                     << "8" >>, << "8" >>, << "8" >>, << "8" >>,
                     << "P", "P", "P", "P", "P", "P", "P", "P" >>,
                     << "R", "N", "B", "Q", "K", "B", "N", "R" >> >>,
         turn |-> "w",
         castle |-> << "K", "Q", "k", "q" >>,
         ep |-> << "-" >>,
         clock |-> 0])
\* ---------------------------------------------------------------- bounds and positions
\* Plies applied to a constructed position before the model stops playing it
MaxPlies == 1
\* Plies applied in the fifty-move runs
FiftyPlies == 101

NoCastle == << "-" >>
NoEp == << "-" >>
Empty8 == << "8" >>

\* "rnbqkbnr/pppppppp/8/8/8/8/PPPPPPPP/RNBQKBNR w KQkq - 0 1"
FenStart ==
    [rows |-> << << "r", "n", "b", "q", "k", "b", "n", "r" >>,
                 << "p", "p", "p", "p", "p", "p", "p", "p" >>,
                 Empty8, Empty8, Empty8, Empty8,
                 << "P", "P", "P", "P", "P", "P", "P", "P" >>,
                 << "R", "N", "B", "Q", "K", "B", "N", "R" >> >>,
     turn |-> "w", castle |-> << "K", "Q", "k", "q" >>, ep |-> NoEp, clock |-> 0]

\* "k1b5/1p1p4/1P1P4/8/8/p3p2p/P3P2P/R3K2R w KQ - 0 1": white may castle either way,
\* black can only shuffle its king
FenCastleWhite ==
    [rows |-> << << "k", "1", "b", "5" >>,
                 << "1", "p", "1", "p", "4" >>,
                 << "1", "P", "1", "P", "4" >>,
                 Empty8, Empty8,
                 << "p", "3", "p", "2", "p" >>,
                 << "P", "3", "P", "2", "P" >>,
                 << "R", "3", "K", "2", "R" >> >>,
     turn |-> "w", castle |-> << "K", "Q" >>, ep |-> NoEp, clock |-> 0]

\* "r3k2r/p3p2p/P3P2P/8/8/1p1p4/1P1P4/K1B5 b kq - 0 1": the same for black
FenCastleBlack ==
    [rows |-> << << "r", "3", "k", "2", "r" >>,
                 << "p", "3", "p", "2", "p" >>,
                 << "P", "3", "P", "2", "P" >>,
                 Empty8, Empty8,
                 << "1", "p", "1", "p", "4" >>,
                 << "1", "P", "1", "P", "4" >>,
                 << "K", "1", "B", "5" >> >>,
     turn |-> "b", castle |-> << "k", "q" >>, ep |-> NoEp, clock |-> 0]

\* "6k1/8/8/r7/8/8/8/R3K2R b KQ - 0 1": a black rook that can attack the squares the
\* castling king stands on, passes and lands on, or capture the rook on a1
FenCastleAttack ==
    [rows |-> << << "6", "k", "1" >>,
                 Empty8, Empty8,
                 << "r", "7" >>,
                 Empty8, Empty8, Empty8,
                 << "R", "3", "K", "2", "R" >> >>,
     turn |-> "b", castle |-> << "K", "Q" >>, ep |-> NoEp, clock |-> 0]

\* "6k1/3p1p1p/P7/4P3/P2p4/8/2P5/6K1 t - - 0 1": double pushes next to enemy pawns
FenEnPassant(t) ==
    [rows |-> << << "6", "k", "1" >>,
                 << "3", "p", "1", "p", "1", "p" >>,
                 << "P", "7" >>,
                 << "4", "P", "3" >>,
                 << "P", "2", "p", "4" >>,
                 Empty8,
                 << "2", "P", "5" >>,
                 << "6", "K", "1" >> >>,
     turn |-> t, castle |-> NoCastle, ep |-> NoEp, clock |-> 0]

\* "n1n5/1P2k3/8/8/8/8/4K1p1/5N1N t - - 0 1": pawns one step from promotion
FenPromotion(t) ==
    [rows |-> << << "n", "1", "n", "5" >>,
                 << "1", "P", "2", "k", "3" >>,
                 Empty8, Empty8, Empty8, Empty8,
                 << "4", "K", "1", "p", "1" >>,
                 << "5", "N", "1", "N" >> >>,
     turn |-> t, castle |-> NoCastle, ep |-> NoEp, clock |-> 0]

\* "k1b5/1p1p4/1P1P4/8/8/p1p1p1p1/P1PpPpP1/K1brbB2 w - - 0 1": nothing can be captured
\* and no pawn can move; the kings shuffle, and black can mate by moving the bishop
\* on c1 off the first rank
FenFortress ==
    [rows |-> << << "k", "1", "b", "5" >>,
                 << "1", "p", "1", "p", "4" >>,
                 << "1", "P", "1", "P", "4" >>,
                 Empty8, Empty8,
                 << "p", "1", "p", "1", "p", "1", "p", "1" >>,
                 << "P", "1", "P", "p", "P", "p", "P", "1" >>,
                 << "K", "1", "b", "r", "b", "B", "2" >> >>,
     turn |-> "w", castle |-> NoCastle, ep |-> NoEp, clock |-> 0]

\* A position of few pieces: the black king and black's other pieces on row 0, a piece
\* in front of them on row 1, white's on row 7
FenMaterial(row0, row1, row7, t) ==
    [rows |-> << row0, row1, Empty8, Empty8, Empty8, Empty8, Empty8, row7 >>,
     turn |-> t, castle |-> NoCastle, ep |-> NoEp, clock |-> 0]

\* The positions of SpecMaterial, by material: K-K, KB-K, KNN-K, KBB-K, KB-KN,
\* KBN-K with the knight next to the black king, KR-K, KN-KNN, KBNN-K, KN-KB
MaterialPositions ==
    { [fen |-> FenMaterial(p[1], p[2], p[3], t), limit |-> MaxPlies] :
        p \in { << << "k", "7" >>, Empty8, << "4", "K", "3" >> >>,
                << << "k", "7" >>, Empty8, << "4", "K", "B", "2" >> >>,
                << << "k", "7" >>, Empty8, << "1", "N", "2", "K", "1", "N", "1" >> >>,
                << << "k", "7" >>, Empty8, << "2", "B", "1", "K", "B", "2" >> >>,
                << << "k", "1", "n", "5" >>, Empty8, << "4", "K", "B", "2" >> >>,
                << << "k", "7" >>, << "1", "N", "6" >>, << "4", "K", "B", "2" >> >>,
                << << "k", "7" >>, Empty8, << "4", "K", "2", "R" >> >>,
                << << "k", "n", "n", "5" >>, Empty8, << "4", "K", "N", "2" >> >>,
                << << "k", "7" >>, Empty8, << "1", "N", "2", "K", "B", "N", "1" >> >>,
                << << "k", "b", "6" >>, Empty8, << "4", "K", "N", "2" >> >> },
        t \in {"w", "b"} }

\* "6k1/4p3/8/8/8/8/4P3/6K1 w - - 99 1": one quiet ply short of the fifty-move draw,
\* with pawns that can still move
FenClock99 ==
    [rows |-> << << "6", "k", "1" >>,
                 << "4", "p", "3" >>,
                 Empty8, Empty8, Empty8, Empty8,
                 << "4", "P", "3" >>,
                 << "6", "K", "1" >> >>,
     turn |-> "w", castle |-> NoCastle, ep |-> NoEp, clock |-> 99]

\* The positions of SpecDraw: the drawn material of MaterialPositions and a clock
\* about to reach 100
DrawPositions ==
    MaterialPositions \cup { [fen |-> FenClock99, limit |-> MaxPlies + 1] }

\* "rnbqkbnr/pppp1ppp/8/4p3/6P1/5P2/PPPPP2P/RNBQKBNR b KQkq - 0 2": the position
\* after f2-f3, e7-e5, g2-g4, where Qd8-h4 mates
FenBeforeFoolsMate ==
    [rows |-> << << "r", "n", "b", "q", "k", "b", "n", "r" >>,
                 << "p", "p", "p", "p", "1", "p", "p", "p" >>,
                 Empty8,
                 << "4", "p", "3" >>,
                 << "6", "P", "1" >>,
                 << "5", "P", "2" >>,
                 << "P", "P", "P", "P", "P", "2", "P" >>,
                 << "R", "N", "B", "Q", "K", "B", "N", "R" >> >>,
     turn |-> "b", castle |-> << "K", "Q", "k", "q" >>, ep |-> NoEp, clock |-> 0]

\* "7k/5K2/P7/8/8/8/8/6Q1 w - - 0 1" with the a-pawn, "7k/5K2/8/8/8/8/8/6Q1 w - - 0 1"
\* without: the queen can mate on the h-file and stalemate from g6
FenQueenEnding(with_pawn) ==
    [rows |-> << << "7", "k" >>,
                 << "5", "K", "2" >>,
                 IF with_pawn THEN << "P", "7" >> ELSE Empty8,
                 Empty8, Empty8, Empty8, Empty8,
                 << "6", "Q", "1" >> >>,
     turn |-> "w", castle |-> NoCastle, ep |-> NoEp, clock |-> 0]

\* "6k1/5ppp/8/8/8/8/8/R5K1 w - - 0 1": the rook mates on the back rank
FenBackRank ==
    [rows |-> << << "6", "k", "1" >>,
                 << "5", "p", "p", "p" >>,
                 Empty8, Empty8, Empty8, Empty8, Empty8,
                 << "R", "5", "K", "1" >> >>,
     turn |-> "w", castle |-> NoCastle, ep |-> NoEp, clock |-> 0]

\* The positions of SpecMate: one move before a checkmate or a stalemate
MatePositions ==
    { [fen |-> FenBeforeFoolsMate, limit |-> MaxPlies],
      [fen |-> FenBackRank, limit |-> MaxPlies],
      [fen |-> FenQueenEnding(TRUE), limit |-> MaxPlies],
      [fen |-> FenQueenEnding(FALSE), limit |-> MaxPlies] }

\* The constructed positions of Spec, each with the number of plies played from it
StartPositions ==
    { [fen |-> FenStart, limit |-> MaxPlies],
      [fen |-> FenCastleWhite, limit |-> MaxPlies + 1],
      [fen |-> FenCastleBlack, limit |-> MaxPlies + 1],
      [fen |-> FenCastleAttack, limit |-> MaxPlies],
      [fen |-> FenEnPassant("w"), limit |-> MaxPlies],
      [fen |-> FenEnPassant("b"), limit |-> MaxPlies],
      [fen |-> FenPromotion("w"), limit |-> MaxPlies],
      [fen |-> FenPromotion("b"), limit |-> MaxPlies] }

\* The positions of SpecCastle: long enough for a king or a rook to leave its square
\* and come back
CastlePositions ==
    { [fen |-> FenCastleWhite, limit |-> MaxPlies + 3],
      [fen |-> FenCastleBlack, limit |-> MaxPlies + 3],
      [fen |-> FenCastleAttack, limit |-> MaxPlies] }

\* The positions of SpecEnPassant: long enough for a double push and its capture
EnPassantPositions ==
    { [fen |-> FenEnPassant("w"), limit |-> MaxPlies + 1],
      [fen |-> FenEnPassant("b"), limit |-> MaxPlies + 1] }

FiftyPositions == { [fen |-> FenFortress, limit |-> FiftyPlies] }

\* ---------------------------------------------------------------- the state machine
VARIABLES
    game,        \* the Game value
    last,        \* the last call: the move it applied (if any) and what it returned
    plies,       \* history: moves applied since construction
    limit,       \* the bound on plies for this run
    start,       \* history: the constructed position this run started from
    quiet,       \* history: plies applied since the last pawn move or capture
    kingMoved,   \* history: the colors whose king has been moved by make_move
    cornerLeft,  \* history: the corners whose original rook has moved or was captured
    lookup,      \* the last call of Mailbox::get_square_with_offset made on its own
    asked        \* the query answered since the last move: the square asked about
                 \* (64: all squares, -1: no query) and the moves returned

vars == << game, last, plies, limit, start, quiet, kingMoved, cornerLeft, lookup, asked >>

NoQuery == [square |-> -1, moves |-> << >>]

\* One call of get_square_with_offset: its arguments and what it returned
Lookup(from, offset) ==
    [from |-> from, offset |-> offset, to |-> get_square_with_offset(from, offset)]

Corners == {0, 7, 56, 63}

InitFrom(positions) ==
    \E p \in positions :
        /\ game = convert_fen_to_game(p.fen)
        /\ limit = p.limit
        /\ start = convert_fen_to_game(p.fen)
        /\ last = [mv |-> << >>, ret |-> TRUE]
        /\ plies = 0
        /\ quiet = 0
        /\ kingMoved = {}
        /\ cornerLeft = {}
        /\ lookup = Lookup(0, 0)
        /\ asked = NoQuery

Init == InitFrom(StartPositions)

InitCastle == InitFrom(CastlePositions)

InitEnPassant == InitFrom(EnPassantPositions)

InitMaterial == InitFrom(MaterialPositions)

InitDraw == InitFrom(DrawPositions)

InitMate == InitFrom(MatePositions)

Init50 == InitFrom(FiftyPositions)

\* What the history variables record of a move applied to g
Applied(g, mv) ==
    /\ plies' = plies + 1
    /\ quiet' = IF g.board[mv.from].type = PAWN \/ g.board[mv.to].type # EMPTY
                   \/ mv.flags = EP_CAPTURE
                THEN 0 ELSE quiet + 1
    /\ kingMoved' = IF g.board[mv.from].type = KING
                    THEN kingMoved \cup {g.board[mv.from].color}
                    ELSE kingMoved
    /\ cornerLeft' = cornerLeft \cup ({mv.from, mv.to} \cap Corners)
                        \cup (IF g.board[mv.from].type = KING /\ mv.to = mv.from + 2
                              THEN {mv.from + 3} ELSE {})
                        \cup (IF g.board[mv.from].type = KING /\ mv.to = mv.from - 2
                              THEN {mv.from - 4} ELSE {})
    /\ asked' = NoQuery

\* The caller applies a move returned by get_all_legal_moves
MakeMove ==
    /\ plies < limit
    /\ \E legal_moves \in {get_all_legal_moves(game)} :
          \E i \in 1 .. Len(legal_moves) :
             /\ game' = make_move(game, legal_moves[i])
             /\ last' = [mv |-> << legal_moves[i] >>, ret |-> TRUE]
             /\ Applied(game, legal_moves[i])
    /\ UNCHANGED << limit, start, lookup >>

\* The (from, to) pairs the caller tries: those of every pseudo-legal move, and the same
\* reversed
FromToInputs(g) ==
    UNION {UNION {{<< s[i].from, s[i].to >>, << s[i].to, s[i].from >>} : i \in 1 .. Len(s)} :
              s \in {generate_pseudo_legal_moves(g, sq) : sq \in Squares}}

PromotionInputs == {EMPTY, KNIGHT_PROMOTION, QUEEN_PROMOTION, QUEEN_PROMOTION_CAP}

\* The caller tries a move by its squares: make_move_from_to, with its call of
\* get_all_legal_moves evaluated once for all the inputs tried in this state
MakeMoveFromTo ==
    /\ plies < limit
    /\ \E legal_moves \in {get_all_legal_moves(game)} :
          \E ft \in FromToInputs(game), promotion \in PromotionInputs :
             \E r \in {from_to_loop(game, legal_moves, 1, ft[1], ft[2], promotion)} :
                /\ game' = r.game
                /\ last' = [mv |-> r.mv, ret |-> r.ret]
                /\ IF r.ret
                   THEN Applied(game, r.mv[1])
                   ELSE UNCHANGED << plies, quiet, kingMoved, cornerLeft, asked >>
    /\ UNCHANGED << limit, start, lookup >>

Next == MakeMove \/ MakeMoveFromTo

\* The positions of SpecQuery
QueryPositions ==
    { [fen |-> FenCastleWhite, limit |-> MaxPlies],
      [fen |-> FenCastleAttack, limit |-> MaxPlies],
      [fen |-> FenEnPassant("b"), limit |-> MaxPlies],
      [fen |-> FenPromotion("w"), limit |-> MaxPlies] }

InitQuery == InitFrom(QueryPositions)

\* The positions of SpecSelect: promotions, castling and en passant to select from
SelectPositions ==
    { [fen |-> FenPromotion("w"), limit |-> MaxPlies],
      [fen |-> FenPromotion("b"), limit |-> MaxPlies],
      [fen |-> FenCastleWhite, limit |-> MaxPlies],
      [fen |-> FenCastleAttack, limit |-> MaxPlies],
      [fen |-> FenEnPassant("w"), limit |-> MaxPlies],
      [fen |-> FenEnPassant("b"), limit |-> MaxPlies] }

InitSelect == InitFrom(SelectPositions)

\* get_all_legal_moves(&self): the position is borrowed, and the filter applies each
\* move to a clone of it
GetAllLegalMoves ==
    /\ asked' = [square |-> 64, moves |-> get_all_legal_moves(game)]
    /\ UNCHANGED << game, last, plies, limit, start, quiet, kingMoved, cornerLeft, lookup >>

\* The squares the caller asks about: those of the two kings and of the last move
QuerySquares ==
    {game.king_square[WHITE], game.king_square[BLACK]}
    \cup (IF last.mv = << >> THEN {} ELSE {last.mv[1].from, last.mv[1].to})

\* get_legal_moves(&self, square)
GetLegalMoves ==
    /\ \E square \in QuerySquares :
          asked' = [square |-> square, moves |-> get_legal_moves(game, square)]
    /\ UNCHANGED << game, last, plies, limit, start, quiet, kingMoved, cornerLeft, lookup >>

NextQuery == MakeMove \/ GetAllLegalMoves \/ GetLegalMoves

\* The mailbox on its own: any square, looked up with the 0 that pads the offset table
InitMailbox ==
    /\ game = starting_position
    /\ start = starting_position
    /\ limit = 0
    /\ last = [mv |-> << >>, ret |-> TRUE]
    /\ plies = 0
    /\ quiet = 0
    /\ kingMoved = {}
    /\ cornerLeft = {}
    /\ \E from \in Squares : lookup = Lookup(from, 0)
    /\ asked = NoQuery

\* for i in 0..piece_offsets[piece]: the first step from a square along one offset of
\* one piece type
FirstStep ==
    /\ \E piece \in KNIGHT .. KING :
          \E i \in 1 .. piece_offsets[piece] :
             lookup' = Lookup(lookup.from, piece_offset[piece][i])
    /\ UNCHANGED << game, last, plies, limit, start, quiet, kingMoved, cornerLeft, asked >>

\* The next step of the ray of a sliding piece: from the square just reached, along
\* the same offset
NextStep ==
    /\ lookup.to # -1
    /\ \E piece \in KNIGHT .. KING :
          /\ sliding_piece[piece]
          /\ \E i \in 1 .. piece_offsets[piece] : piece_offset[piece][i] = lookup.offset
    /\ lookup' = Lookup(lookup.to, lookup.offset)
    /\ UNCHANGED << game, last, plies, limit, start, quiet, kingMoved, cornerLeft, asked >>

NextMailbox == FirstStep \/ NextStep

Spec == Init /\ [][Next]_vars

SpecCastle == InitCastle /\ [][Next]_vars

SpecEnPassant == InitEnPassant /\ [][Next]_vars

SpecMaterial == InitMaterial /\ [][Next]_vars

SpecDraw == InitDraw /\ [][Next]_vars

SpecMate == InitMate /\ [][Next]_vars

Spec50 == Init50 /\ [][Next]_vars

SpecMailbox == InitMailbox /\ [][NextMailbox]_vars

SpecQuery == InitQuery /\ [][NextQuery]_vars

SpecSelect == InitSelect /\ [][Next]_vars
\* ---------------------------------------------------------------- perft
\* The number of move sequences of length d from g: each applies make_move to a move
\* of get_all_legal_moves
RECURSIVE Perft(_, _)
RECURSIVE PerftSum(_, _, _, _)
PerftSum(g, legal_moves, i, d) ==
    IF i > Len(legal_moves) THEN 0
    ELSE Perft(make_move(g, legal_moves[i]), d - 1) + PerftSum(g, legal_moves, i + 1, d)

Perft(g, d) ==
    IF d = 0 THEN 1
    ELSE IF d = 1 THEN Len(get_all_legal_moves(g))
    ELSE PerftSum(g, get_all_legal_moves(g), 1, d)
\* ---------------------------------------------------------------- chess, by rows and columns
\* The reference the claims are stated against: which squares a piece attacks, from
\* the rules of chess, without the mailbox and without is_attacked.
Range(seq) == UNION {{s[i] : i \in 1 .. Len(s)} : s \in {seq}}

Abs(x) == IF x < 0 THEN -x ELSE x
Sgn(x) == IF x < 0 THEN -1 ELSE IF x > 0 THEN 1 ELSE 0
Opposite(color) == IF color = WHITE THEN BLACK ELSE WHITE

PathClear(board, q, sq) ==
    LET dr == (sq \div 8) - (q \div 8)
        dc == (sq % 8) - (q % 8)
        n == IF Abs(dr) > Abs(dc) THEN Abs(dr) ELSE Abs(dc)
    IN  \A k \in 1 .. n - 1 :
           board[((q \div 8) + k * Sgn(dr)) * 8 + (q % 8) + k * Sgn(dc)].type = EMPTY

\* The piece on q could capture on sq
Reaches(board, q, sq) ==
    LET dr == (sq \div 8) - (q \div 8)
        dc == (sq % 8) - (q % 8)
        t == board[q].type
        diagonal == Abs(dr) = Abs(dc) /\ dr # 0
        straight == (dr = 0) # (dc = 0)
    IN  CASE t = KNIGHT -> {Abs(dr), Abs(dc)} = {1, 2}
          [] t = KING -> q # sq /\ Abs(dr) <= 1 /\ Abs(dc) <= 1
          [] t = BISHOP -> diagonal /\ PathClear(board, q, sq)
          [] t = ROOK -> straight /\ PathClear(board, q, sq)
          [] t = QUEEN -> (diagonal \/ straight) /\ PathClear(board, q, sq)
          [] t = PAWN -> Abs(dc) = 1 /\ dr = (IF board[q].color = WHITE THEN -1 ELSE 1)
          [] OTHER -> FALSE

\* Some piece of the color opposite to `color` could capture on sq
RefAttacked(board, sq, color) ==
    \E q \in Squares :
        board[q].type # EMPTY /\ board[q].color # color /\ Reaches(board, q, sq)

KingsOf(board, color) ==
    {sq \in Squares : board[sq].type = KING /\ board[sq].color = color}

PseudoLegalSet(g) == UNION {Range(generate_pseudo_legal_moves(g, sq)) : sq \in Squares}

PerSquareLegalSet(g) == UNION {Range(get_legal_moves(g, sq)) : sq \in Squares}

IsCastleFlag(mv) == mv.flags = KING_CASTLE \/ mv.flags = QUEEN_CASTLE

\* The square next to the king that a castling king passes over
PassedOver(mv) == IF mv.flags = QUEEN_CASTLE THEN mv.from - 1 ELSE mv.from + 1

\* The corner a castle move of that color castles toward
CornerOf(color, mv) ==
    IF color = WHITE THEN (IF mv.flags = KING_CASTLE THEN 63 ELSE 56)
    ELSE (IF mv.flags = KING_CASTLE THEN 7 ELSE 0)

\* ---------------------------------------------------------------- claims
\* C1: from Game::starting_position() get_all_legal_moves returns exactly 20 moves,
\* after each of them the position has exactly 20 legal moves (400 sequences of
\* length 2), and there are exactly 8902 move sequences of length 3.
C1_Perft ==
    start = starting_position =>
        /\ plies = 0 =>
              /\ Len(get_all_legal_moves(game)) = 20
              /\ Perft(game, 2) = 400
              /\ Perft(game, 3) = 8902
        /\ plies = 1 => Len(get_all_legal_moves(game)) = 20

\* C1 witness: a position one move after the starting position, with its 20 replies
C1_Witness ==
    /\ start = starting_position
    /\ plies = 1
    /\ Len(get_all_legal_moves(game)) = 20

\* C2: after make_move of any move returned by get_all_legal_moves or
\* get_legal_moves, no piece of the opposing color could capture on the square
\* holding the mover's king.
C2_KingNotLeftAttacked ==
    \A mv \in Range(get_all_legal_moves(game)) \cup PerSquareLegalSet(game) :
        \A g2 \in {make_move(game, mv)} :
            \A k \in KingsOf(g2.board, game.turn) :
                ~RefAttacked(g2.board, k, game.turn)

\* C2 witness: a position where some pseudo-legal move of a square would leave the
\* king capturable, and the square keeps other, legal moves
C2_Witness ==
    \E sq \in Squares :
        /\ plies >= 1
        /\ Len(get_legal_moves(game, sq)) > 0
        /\ \E mv \in Range(generate_pseudo_legal_moves(game, sq)) :
              \E g2 \in {make_move(game, mv)} :
                  \E k \in KingsOf(g2.board, game.turn) :
                      RefAttacked(g2.board, k, game.turn)

\* C3 (as claimed): is_attacked(position, s, c) is true if and only if some piece of
\* the color opposite to c could capture on s; a pawn on the opposite edge file
\* never counts.
C3_AttackedIffCapturable ==
    \A sq \in Squares, color \in {WHITE, BLACK} :
        is_attacked(game, sq, color) <=> RefAttacked(game.board, sq, color)

\* A move is legal by the rules: applying it leaves the mover's king uncapturable,
\* and a castling king neither stands on nor passes over a capturable square
RefLegal(g, mv) ==
    /\ \A g2 \in {make_move(g, mv)} :
          \A k \in KingsOf(g2.board, g.turn) : ~RefAttacked(g2.board, k, g.turn)
    /\ IsCastleFlag(mv) =>
          /\ ~RefAttacked(g.board, mv.from, g.turn)
          /\ ~RefAttacked(g.board, PassedOver(mv), g.turn)

\* C4 (as claimed): get_all_legal_moves returns exactly the pseudo-legal moves that
\* are legal by the rules of chess: none is missing and no other is in the list.
C4_LegalExactly ==
    Range(get_all_legal_moves(game)) = {mv \in PseudoLegalSet(game) : RefLegal(game, mv)}

\* C5: make_move_from_to returns false and leaves the position unchanged when no
\* legal move has that from and to, or when every such move is a promotion of
\* another type than the argument (capture bit masked off); otherwise it returns
\* true and the position is make_move of a matching legal move.
C5_FromTo ==
    \A legal_moves \in {get_all_legal_moves(game)} :
        \A ft \in FromToInputs(game), promotion \in PromotionInputs :
            \A r \in {from_to_loop(game, legal_moves, 1, ft[1], ft[2], promotion)} :
                LET matching == {mv \in Range(legal_moves) : mv.from = ft[1] /\ mv.to = ft[2]}
                    refused == \A mv \in matching :
                                  /\ mv.flags >= 8
                                  /\ (IF mv.flags >= 12 THEN mv.flags - 4 ELSE mv.flags)
                                        # promotion
                IN  IF refused
                    THEN r.ret = FALSE /\ r.game = game
                    ELSE r.ret = TRUE /\ \E mv \in matching : r.game = make_move(game, mv)

\* C5 witness: make_move_from_to has just returned false in a position that has a
\* legal promotion
C5_Witness ==
    /\ last.ret = FALSE
    /\ \E mv \in Range(get_all_legal_moves(game)) : mv.flags >= 8

\* C6: for each color, king_square holds a king of that color, the only one on
\* the board.
C6_KingSquare ==
    \A color \in {WHITE, BLACK} :
        KingsOf(game.board, color) = {game.king_square[color]}

\* C6 witness: the last move applied was a castle
C6_Witness ==
    /\ last.mv # << >>
    /\ IsCastleFlag(last.mv[1])
    /\ game.board[last.mv[1].to].type = KING

\* C7: once a king has been moved, no castle move of its color is generated; once
\* the rook of a corner has moved or was captured, no castle move toward that
\* corner is generated.
C7_CastlingLostForGood ==
    \A mv \in PseudoLegalSet(game) \cup Range(get_all_legal_moves(game)) :
        IsCastleFlag(mv) =>
            /\ game.turn \notin kingMoved
            /\ CornerOf(game.turn, mv) \notin cornerLeft

\* C7 witness: the king of the side to move has moved and is back on its original
\* square, next to a rook that never moved, with the squares between them empty
C7_Witness ==
    \E c \in {WHITE, BLACK} :
        LET k == IF c = WHITE THEN 60 ELSE 4
        IN  /\ game.turn = c
            /\ c \in kingMoved
            /\ game.board[k].type = KING /\ game.board[k].color = c
            /\ game.board[k + 3].type = ROOK /\ (k + 3) \notin cornerLeft
            /\ game.board[k + 1].type = EMPTY /\ game.board[k + 2].type = EMPTY

\* C8: no castle move is returned when the king's square, the square it passes
\* over or its destination can be captured on by an opposing piece.
C8_NoCastleThroughAttack ==
    \A mv \in Range(get_all_legal_moves(game)) \cup PerSquareLegalSet(game) :
        IsCastleFlag(mv) =>
            /\ ~RefAttacked(game.board, mv.from, game.turn)
            /\ ~RefAttacked(game.board, PassedOver(mv), game.turn)
            /\ ~RefAttacked(game.board, mv.to, game.turn)

\* C8 witness: a castle move is generated with every square between king and rook
\* empty, and one of the three squares is attacked
C8_Witness ==
    \E mv \in PseudoLegalSet(game) :
        /\ IsCastleFlag(mv)
        /\ \/ RefAttacked(game.board, mv.from, game.turn)
           \/ RefAttacked(game.board, PassedOver(mv), game.turn)
           \/ RefAttacked(game.board, mv.to, game.turn)
        /\ Len(get_all_legal_moves(game)) > 0

\* C9: make_move of an en-passant capture clears the square on the mover's row in
\* the destination file, which held the enemy pawn and is not the destination;
\* then the destination holds the capturing pawn, the source is empty and the
\* en-passant target is none.
C9_EnPassant ==
    \A mv \in Range(get_all_legal_moves(game)) :
        mv.flags = EP_CAPTURE =>
            \A g2 \in {make_move(game, mv)} :
                LET cleared == (mv.from \div 8) * 8 + (mv.to % 8)
                IN  /\ cleared # mv.to
                    /\ cleared = game.possible_ep_capture
                    /\ game.board[cleared].type = PAWN
                    /\ game.board[cleared].color # game.turn
                    /\ g2.board[cleared].type = EMPTY
                    /\ g2.board[mv.to].type = PAWN
                    /\ g2.board[mv.to].color = game.turn
                    /\ g2.board[mv.from].type = EMPTY
                    /\ g2.possible_ep_capture >= 64

\* C9 witness: the last move applied was an en-passant capture
C9_Witness ==
    /\ last.mv # << >>
    /\ last.mv[1].flags = EP_CAPTURE
    /\ game.board[last.mv[1].to].type = PAWN

\* C10 (as claimed): after 100 consecutive applied plies without a pawn move or a
\* capture, get_game_state returns DrawBy50MoveRule.
C10_AlwaysFiftyMoveDraw ==
    quiet >= 100 => get_game_state(game) = "DrawBy50MoveRule"

\* C10 (amended): after 100 consecutive applied plies without a pawn move or a
\* capture, get_game_state returns DrawBy50MoveRule unless the position is
\* checkmate, stalemate or insufficient material, which it reports first.
C10_FiftyMoveDraw ==
    quiet >= 100 =>
        get_game_state(game) \in
            {"DrawBy50MoveRule", "Checkmate", "Stalemate", "InsufficientMaterial"}

\* C10 witness: 100 such plies have been applied and the state is the draw
C10_Witness ==
    quiet >= 100 /\ get_game_state(game) = "DrawBy50MoveRule"

\* C11: make_move leaves half_move_clock at 0 when the moved piece was a pawn or the
\* move captured (en passant and promotion captures included) and at the previous
\* value plus 1 otherwise; so half_move_clock is the number of plies applied since
\* the last pawn move or capture.
C11_HalfMoveClock ==
    /\ game.half_move_clock = quiet
    /\ \A mv \in Range(get_all_legal_moves(game)) :
          LET pawn == game.board[mv.from].type = PAWN
              captures == \/ game.board[mv.to].type # EMPTY
                          \/ (pawn /\ mv.from % 8 # mv.to % 8)
          IN  make_move(game, mv).half_move_clock =
                 (IF pawn \/ captures THEN 0 ELSE game.half_move_clock + 1)

\* C11 witness: a piece other than a pawn has just captured and the clock is 0, in
\* a position whose quiet moves count one more ply
C11_Witness ==
    /\ last.mv # << >>
    /\ last.mv[1].flags = CAPTURE
    /\ game.board[last.mv[1].to].type # PAWN
    /\ game.half_move_clock = 0
    /\ \E mv \in Range(get_all_legal_moves(game)) :
          make_move(game, mv).half_move_clock = 1

\* The pieces of a color other than its king, by square
OthersOf(board, color) ==
    {sq \in Squares : board[sq].type \notin {EMPTY, KING} /\ board[sq].color = color}

\* A lone king, a king with one bishop or one knight, or a king with two knights
RefBareMaterial(board, color) ==
    LET others == OthersOf(board, color)
    IN  \/ others = {}
        \/ Cardinality(others) = 1 /\ \A sq \in others : board[sq].type \in {BISHOP, KNIGHT}
        \/ Cardinality(others) = 2 /\ \A sq \in others : board[sq].type = KNIGHT

\* C12: when the side to move has a legal move, get_game_state returns
\* InsufficientMaterial if and only if each side, independently, has a lone king, a
\* king with exactly one bishop or one knight, or a king with exactly two knights.
C12_InsufficientMaterial ==
    Len(get_all_legal_moves(game)) > 0 =>
        (get_game_state(game) = "InsufficientMaterial"
            <=> RefBareMaterial(game.board, WHITE) /\ RefBareMaterial(game.board, BLACK))

\* C12 witness: a capture has just left king and bishop against a lone king, and the
\* state is InsufficientMaterial
C12_Witness ==
    /\ last.mv # << >>
    /\ last.mv[1].flags = CAPTURE
    /\ Cardinality(OthersOf(game.board, WHITE)) = 1
    /\ OthersOf(game.board, BLACK) = {}
    /\ \E sq \in OthersOf(game.board, WHITE) : game.board[sq].type = BISHOP
    /\ get_game_state(game) = "InsufficientMaterial"

\* C13 (as claimed): once get_game_state has returned DrawBy50MoveRule or
\* InsufficientMaterial, moves can still be generated and applied and get_game_state
\* keeps returning a draw of that same type after every further legal move.
C13_DrawPersists ==
    [][\A draw \in {"DrawBy50MoveRule", "InsufficientMaterial"} :
          get_game_state(game) = draw => get_game_state(game') = draw]_vars

\* The game after make_move_from_to of f2-f3, e7-e5, g2-g4 and Qd8-h4 from the
\* starting position
FoolsMate ==
    LET g1 == make_move_from_to(starting_position, 53, 45, EMPTY).game
        g2 == make_move_from_to(g1, 12, 28, EMPTY).game
        g3 == make_move_from_to(g2, 54, 38, EMPTY).game
    IN  make_move_from_to(g3, 3, 39, EMPTY).game

\* C14 (as claimed): get_game_state returns Checkmate exactly when the king of the
\* side to move can be captured and get_all_legal_moves is empty, and Stalemate
\* exactly when it cannot be captured and get_all_legal_moves is empty; after the
\* fool's mate the state is Checkmate and white has no legal move.
C14_MateAndStalemate ==
    /\ \A state \in {get_game_state(game)}, legal_moves \in {get_all_legal_moves(game)} :
          LET attacked == \E k \in KingsOf(game.board, game.turn) :
                             RefAttacked(game.board, k, game.turn)
          IN  /\ state = "Checkmate" <=> (attacked /\ Len(legal_moves) = 0)
              /\ state = "Stalemate" <=> (~attacked /\ Len(legal_moves) = 0)
    /\ plies = 0 =>
          \A g4 \in {FoolsMate} :
              get_game_state(g4) = "Checkmate" /\ Len(get_all_legal_moves(g4)) = 0

\* C15 (as claimed): after make_move every piece it relocated carries the has-moved
\* flag on its destination square: the moved piece (also on captures and
\* promotions) and, for a castle, the rook now standing next to the king.
C15_RelocatedHaveMoved ==
    \A mv \in Range(get_all_legal_moves(game)) :
        \A g2 \in {make_move(game, mv)} :
            /\ g2.board[mv.to].flags % 2 = 1
            /\ (game.board[mv.from].type = KING /\ mv.to = mv.from + 2) =>
                  (g2.board[mv.from + 1].type = ROOK /\ g2.board[mv.from + 1].flags % 2 = 1)
            /\ (game.board[mv.from].type = KING /\ mv.to = mv.from - 2) =>
                  (g2.board[mv.from - 1].type = ROOK /\ g2.board[mv.from - 1].flags % 2 = 1)

\* C16 (as claimed): get_game_state classifies with a fixed precedence: Checkmate or
\* Stalemate when there is no legal move, then InsufficientMaterial, then
\* DrawBy50MoveRule when half_move_clock >= 100, and only otherwise Check when the
\* king of the side to move can be captured, or InProgress when it cannot.
C16_Precedence ==
    \A legal_moves \in {get_all_legal_moves(game)} :
        LET attacked == \E k \in KingsOf(game.board, game.turn) :
                           RefAttacked(game.board, k, game.turn)
            bare == RefBareMaterial(game.board, WHITE) /\ RefBareMaterial(game.board, BLACK)
        IN  get_game_state(game) =
               (IF Len(legal_moves) = 0
                THEN (IF attacked THEN "Checkmate" ELSE "Stalemate")
                ELSE IF bare THEN "InsufficientMaterial"
                ELSE IF game.half_move_clock >= 100 THEN "DrawBy50MoveRule"
                ELSE IF attacked THEN "Check"
                ELSE "InProgress")

\* A pawn moved two rows
IsDoublePush(board, mv) ==
    board[mv.from].type = PAWN /\ Abs((mv.to \div 8) - (mv.from \div 8)) = 2

\* C17: possible_ep_capture is below 64 exactly after a double pawn push, and then it
\* is the destination of the push, holding a pawn of the side not to move; any
\* other move resets it to none.  En-passant captures are generated only then, only
\* for a pawn of the side to move on the same row directly left or right of that
\* square, and they land on the empty square the pushed pawn passed over.
C17_EnPassantTarget ==
    /\ plies = 0 => game.possible_ep_capture >= 64
    /\ last.mv # << >> =>
          IF game.board[last.mv[1].to].type = PAWN
             /\ Abs((last.mv[1].to \div 8) - (last.mv[1].from \div 8)) = 2
          THEN /\ game.possible_ep_capture = last.mv[1].to
               /\ game.board[game.possible_ep_capture].color # game.turn
          ELSE game.possible_ep_capture >= 64
    /\ \A mv \in Range(get_all_legal_moves(game)) :
          \A g2 \in {make_move(game, mv)} :
              IF IsDoublePush(game.board, mv)
              THEN /\ g2.possible_ep_capture = mv.to
                   /\ g2.board[mv.to].type = PAWN
                   /\ g2.board[mv.to].color # g2.turn
              ELSE g2.possible_ep_capture >= 64
    /\ \A mv \in PseudoLegalSet(game) :
          mv.flags = EP_CAPTURE =>
              LET ep == game.possible_ep_capture
              IN  /\ ep < 64
                  /\ game.board[mv.from].type = PAWN
                  /\ game.board[mv.from].color = game.turn
                  /\ mv.from \div 8 = ep \div 8
                  /\ Abs((mv.from % 8) - (ep % 8)) = 1
                  /\ mv.to = ep + (IF game.turn = WHITE THEN -8 ELSE 8)
                  /\ game.board[mv.to].type = EMPTY

\* C17 witness: a double push has just been applied next to an enemy pawn, which
\* may capture it en passant, and another move of this position resets the target
C17_Witness ==
    /\ last.mv # << >>
    /\ last.mv[1].flags = DOUBLE_PAWN_PUSH
    /\ game.possible_ep_capture = last.mv[1].to
    /\ \E mv \in Range(get_all_legal_moves(game)) : mv.flags = EP_CAPTURE
    /\ \E mv \in Range(get_all_legal_moves(game)) :
          make_move(game, mv).possible_ep_capture >= 64

\* C18: a castle move from king square k puts the king on k + 2 (king side) or k - 2
\* (queen side) and the rook of the corner k + 3 on k + 1, or of the corner k - 4 on
\* k - 1, and leaves the king's origin and the corner empty; it is generated only
\* when the king has never moved, the corner holds a rook that has never moved and
\* the squares strictly between king and rook are empty.
C18_CastleMechanics ==
    \A mv \in PseudoLegalSet(game) \cup Range(get_all_legal_moves(game)) :
        IsCastleFlag(mv) =>
            LET k == mv.from
                side == IF mv.flags = KING_CASTLE THEN 1 ELSE -1
                corner == IF mv.flags = KING_CASTLE THEN k + 3 ELSE k - 4
                me == game.turn
            IN  /\ k = (IF me = WHITE THEN 60 ELSE 4)
                /\ corner = CornerOf(me, mv)
                /\ game.board[k].type = KING /\ game.board[k].color = me
                /\ me \notin kingMoved
                /\ game.board[corner].type = ROOK /\ game.board[corner].color = me
                /\ corner \notin cornerLeft
                /\ \A sq \in Squares :
                      (sq - k) * side > 0 /\ (corner - sq) * side > 0 =>
                          game.board[sq].type = EMPTY
                /\ mv.to = k + 2 * side
                /\ \A g2 \in {make_move(game, mv)} :
                      /\ g2.board[k + 2 * side].type = KING
                      /\ g2.board[k + 2 * side].color = me
                      /\ g2.board[k + side].type = ROOK
                      /\ g2.board[k + side].color = me
                      /\ g2.board[k].type = EMPTY
                      /\ g2.board[corner].type = EMPTY

\* C18 witness: a queen-side castle has just been applied: the rook stands next to
\* the king, on the square the king passed over, and the corner is empty
C18_Witness ==
    /\ last.mv # << >>
    /\ last.mv[1].flags = QUEEN_CASTLE
    /\ game.board[last.mv[1].to].type = KING
    /\ game.board[last.mv[1].to + 1].type = ROOK
    /\ game.board[last.mv[1].from - 4].type = EMPTY

\* The piece type a promotion flag stands for, with or without capture
PromotionPiece(flags) ==
    CASE flags \in {KNIGHT_PROMOTION, KNIGHT_PROMOTION_CAP} -> KNIGHT
      [] flags \in {BISHOP_PROMOTION, BISHOP_PROMOTION_CAP} -> BISHOP
      [] flags \in {ROOK_PROMOTION, ROOK_PROMOTION_CAP} -> ROOK
      [] flags \in {QUEEN_PROMOTION, QUEEN_PROMOTION_CAP} -> QUEEN

\* The pawn moves of a move list that end on row 0 or row 7
LastRowPawnMoves(g, moves) ==
    {i \in 1 .. Len(moves) :
        /\ g.board[moves[i].from].type = PAWN
        /\ moves[i].to \div 8 \in {0, 7}}

\* In the move list `moves` of position g, every pawn move to the last row is one of
\* exactly four moves with its source and destination, one per promotion piece, all
\* four capturing when the move is diagonal and none when it is straight
FourPromotions(g, moves) ==
    \A i \in LastRowPawnMoves(g, moves) :
        LET same == {j \in 1 .. Len(moves) :
                        moves[j].from = moves[i].from /\ moves[j].to = moves[i].to}
            diagonal == moves[i].to % 8 # moves[i].from % 8
        IN  /\ Cardinality(same) = 4
            /\ {moves[j].flags : j \in same} =
                  (IF diagonal
                   THEN {KNIGHT_PROMOTION_CAP, BISHOP_PROMOTION_CAP,
                         ROOK_PROMOTION_CAP, QUEEN_PROMOTION_CAP}
                   ELSE {KNIGHT_PROMOTION, BISHOP_PROMOTION,
                         ROOK_PROMOTION, QUEEN_PROMOTION})
            /\ diagonal <=> g.board[moves[i].to].type # EMPTY

\* C19: a pawn move to row 0 or row 7 is generated as exactly four moves, one per
\* promotion piece (the capturing variants for a diagonal move), and never as a
\* quiet, capture or double-push move; once applied, the destination holds a piece
\* of the mover's color and of the chosen type; and make_move_from_to with
\* KNIGHT_, BISHOP_, ROOK_ or QUEEN_PROMOTION applies that variant, capturing or not.
C19_Promotion ==
    /\ \A sq \in Squares :
          game.board[sq].type = PAWN =>
              FourPromotions(game, generate_pseudo_legal_moves(game, sq))
    /\ \A legal_moves \in {get_all_legal_moves(game)} :
          /\ FourPromotions(game, legal_moves)
          /\ \A i \in LastRowPawnMoves(game, legal_moves) :
                \A mv \in {legal_moves[i]} :
                   /\ \A g2 \in {make_move(game, mv)} :
                         /\ g2.board[mv.to].type = PromotionPiece(mv.flags)
                         /\ g2.board[mv.to].color = game.turn
                         /\ \A r \in {from_to_loop(game, legal_moves, 1, mv.from, mv.to,
                                                  IF mv.flags >= 12 THEN mv.flags - 4
                                                  ELSE mv.flags)} :
                               r.ret = TRUE /\ r.mv = << mv >> /\ r.game = g2

\* C19 witness: a capturing promotion to a knight has just been applied, and the
\* other side has a promotion of its own to choose
C19_Witness ==
    /\ last.mv # << >>
    /\ last.mv[1].flags = KNIGHT_PROMOTION_CAP
    /\ game.board[last.mv[1].to].type = KNIGHT
    /\ \E legal_moves \in {get_all_legal_moves(game)} :
          LastRowPawnMoves(game, legal_moves) # {}

\* The squares make_move may change for the move mv of the side `me`
TouchedSquares(me, mv) ==
    {mv.from, mv.to}
    \cup (IF mv.flags = EP_CAPTURE THEN {mv.to + (IF me = WHITE THEN 8 ELSE -8)} ELSE {})
    \cup (IF mv.flags = KING_CASTLE THEN {mv.from + 3, mv.from + 1} ELSE {})
    \cup (IF mv.flags = QUEEN_CASTLE THEN {mv.from - 4, mv.from - 1} ELSE {})

\* C20: make_move of a generated move flips the turn and changes no square but the
\* source (emptied), the destination (the moved piece, in its color), the square of
\* a pawn captured en passant, and the rook's corner and landing square of a castle;
\* every other square keeps its type and color, and the king_square entry of the
\* opponent stays as it was.
C20_Frame ==
    \A mv \in PseudoLegalSet(game) \cup Range(get_all_legal_moves(game)) :
        \A g2 \in {make_move(game, mv)} :
            LET me == game.turn
                moved == game.board[mv.from]
            IN  /\ g2.turn = 1 - me
                /\ g2.king_square[1 - me] = game.king_square[1 - me]
                /\ \A sq \in Squares \ TouchedSquares(me, mv) :
                      /\ g2.board[sq].type = game.board[sq].type
                      /\ g2.board[sq].color = game.board[sq].color
                /\ g2.board[mv.from].type = EMPTY
                /\ g2.board[mv.to].color = me
                /\ g2.board[mv.to].type =
                      (IF mv.flags >= 8 THEN PromotionPiece(mv.flags) ELSE moved.type)
                /\ mv.flags = EP_CAPTURE =>
                      g2.board[mv.to + (IF me = WHITE THEN 8 ELSE -8)].type = EMPTY

\* C20 witness: a king-side castle has just been applied, so two squares besides the
\* source and the destination of the move changed (the corner was emptied, the rook
\* landed next to the king), it is the other side's turn, and that side's king_square
\* entry still names its king
C20_Witness ==
    /\ last.mv # << >>
    /\ last.mv[1].flags = KING_CASTLE
    /\ game.turn = 1 - game.board[last.mv[1].to].color
    /\ game.board[last.mv[1].from + 3].type = EMPTY
    /\ game.board[last.mv[1].from + 1].type = ROOK
    /\ game.board[game.king_square[game.turn]].type = KING
    /\ game.board[game.king_square[game.turn]].color = game.turn

\* The (row, column) step an offset of the 10-wide mailbox stands for
StepOf(offset) ==
    CASE offset = -21 -> << -2, -1 >> [] offset = -19 -> << -2, 1 >>
      [] offset = -12 -> << -1, -2 >> [] offset = -8 -> << -1, 2 >>
      [] offset = 8 -> << 1, -2 >>    [] offset = 12 -> << 1, 2 >>
      [] offset = 19 -> << 2, -1 >>   [] offset = 21 -> << 2, 1 >>
      [] offset = -11 -> << -1, -1 >> [] offset = -10 -> << -1, 0 >>
      [] offset = -9 -> << -1, 1 >>   [] offset = -1 -> << 0, -1 >>
      [] offset = 1 -> << 0, 1 >>     [] offset = 9 -> << 1, -1 >>
      [] offset = 10 -> << 1, 0 >>    [] offset = 11 -> << 1, 1 >>
      [] offset = 0 -> << 0, 0 >>

\* The square reached from `from` by the step, or -1 when the step leaves the board
RefStep(from, offset) ==
    LET row == (from \div 8) + StepOf(offset)[1]
        col == (from % 8) + StepOf(offset)[2]
    IN  IF row \in 0 .. 7 /\ col \in 0 .. 7 THEN 8 * row + col ELSE -1

\* C21: for every square and every offset of the knight, bishop, rook, queen and king
\* tables, get_square_with_offset indexes inside the 120-entry table, returns -1
\* exactly when the (row, column) step leaves the board, and otherwise returns the
\* index 8 * (row + dr) + (col + dc); no step wraps around to the opposite edge.
C21_MailboxStep ==
    /\ mailbox64[lookup.from + 1] + lookup.offset \in 0 .. 119
    /\ lookup.to = RefStep(lookup.from, lookup.offset)
    /\ \A from \in Squares, piece \in KNIGHT .. KING :
          \A i \in 1 .. piece_offsets[piece] :
             /\ mailbox64[from + 1] + piece_offset[piece][i] \in 0 .. 119
             /\ get_square_with_offset(from, piece_offset[piece][i]) =
                   RefStep(from, piece_offset[piece][i])

\* C21 witness: a knight step of two columns taken from the right-hand edge returned
\* -1, where plain arithmetic on the index would have landed on the next row
C21_Witness ==
    /\ lookup.from % 8 = 7
    /\ lookup.offset = 12
    /\ lookup.from + 10 \in Squares
    /\ lookup.to = -1

\* C22: get_legal_moves(s) is empty when s is empty or holds a piece of the side not
\* to move; the moves of get_legal_moves(s) over all squares s are exactly those of
\* get_all_legal_moves; and neither query changes the position.
C22_PerSquareQueries ==
    /\ [](\A legal_moves \in {get_all_legal_moves(game)} :
            \A per_square \in {[s \in Squares |-> get_legal_moves(game, s)]} :
               /\ \A s \in Squares :
                     game.board[s].type = EMPTY \/ game.board[s].color # game.turn =>
                         per_square[s] = << >>
               /\ UNION {Range(per_square[s]) : s \in Squares} = Range(legal_moves)
               /\ Len(Flatten([i \in 1 .. 64 |-> per_square[i - 1]])) = Len(legal_moves)
               /\ asked.square = 64 => asked.moves = legal_moves
               /\ asked.square \in Squares => asked.moves = per_square[asked.square])
    /\ [][asked' # NoQuery => game' = game]_vars

\* C22 witness: after a move, the caller asked about the square of the piece that has
\* just moved, now of the side not to move, and got no moves, though the side to
\* move has some
C22_Witness ==
    /\ last.mv # << >>
    /\ asked.square = last.mv[1].to
    /\ asked.moves = << >>
    /\ get_all_legal_moves(game) # << >>

\* C23: no pawn stands on row 0 or row 7, so the forward square of every pawn of the
\* side to move is on the board, and every board index used by move generation, by
\* is_attacked and by make_move is in 0 .. 63.
C23_IndicesInRange ==
    /\ \A sq \in Squares : game.board[sq].type = PAWN => sq \div 8 \notin {0, 7}
    /\ \A sq \in Squares :
          game.board[sq].type # EMPTY /\ game.board[sq].color = game.turn =>
              /\ game.board[sq].type = PAWN =>
                    /\ sq + (IF game.turn = WHITE THEN -8 ELSE 8) \in Squares
                    /\ pawn_board_indices(game, sq) \subseteq Squares
              /\ game.board[sq].type # PAWN =>
                    castle_board_indices(game, sq) \subseteq Squares
    /\ \A sq \in Squares, color \in {WHITE, BLACK} :
          attack_pawn_indices(sq, color) \subseteq Squares
    /\ \A mv \in PseudoLegalSet(game) : make_move_indices(mv) \subseteq Squares
    /\ game.king_square[WHITE] \in Squares /\ game.king_square[BLACK] \in Squares

\* C23 witness: a pawn has just promoted to a queen on the last row, and a pawn of the
\* side to move stands one step from the last row
C23_Witness ==
    /\ last.mv # << >>
    /\ last.mv[1].flags = QUEEN_PROMOTION
    /\ last.mv[1].to \div 8 \in {0, 7}
    /\ game.board[last.mv[1].to].type = QUEEN
    /\ \E sq \in Squares :
          /\ game.board[sq].type = PAWN /\ game.board[sq].color = game.turn
          /\ (sq + (IF game.turn = WHITE THEN -8 ELSE 8)) \div 8 \in {0, 7}

Reverse(seq) == [i \in 1 .. Len(seq) |-> seq[Len(seq) + 1 - i]]

\* What make_move_from_to looks at in a move: from, to and, for a promotion, the
\* promotion type without the capture bit
SelectionKey(mv) ==
    << mv.from, mv.to,
       IF mv.flags >= 12 THEN mv.flags - 4 ELSE IF mv.flags >= 8 THEN mv.flags ELSE 0 >>

\* The promotion arguments tried: none, each promotion type, and one with the capture
\* bit, which no move matches
SelectionArguments ==
    {EMPTY, KNIGHT_PROMOTION, BISHOP_PROMOTION, ROOK_PROMOTION, QUEEN_PROMOTION,
     QUEEN_PROMOTION_CAP}

\* C24: the legal-move list holds no two moves with the same from, to and promotion
\* type (capture bit masked off for promotions, any flags otherwise), so the outcome
\* of make_move_from_to is fixed by its arguments: the list taken in the opposite
\* order gives the same position and the same returned value.
C24_OrderIndependent ==
    \A legal_moves \in {get_all_legal_moves(game)} :
        /\ \A i, j \in 1 .. Len(legal_moves) :
              i # j => SelectionKey(legal_moves[i]) # SelectionKey(legal_moves[j])
        /\ \A backwards \in {Reverse(legal_moves)} :
              \A ft \in FromToInputs(game), promotion \in SelectionArguments :
                 from_to_loop(game, backwards, 1, ft[1], ft[2], promotion)
                    = from_to_loop(game, legal_moves, 1, ft[1], ft[2], promotion)

\* C24 witness: make_move_from_to has just applied a capturing promotion to a queen
\* that stood in the list after another move with the same from and to
C24_Witness ==
    /\ plies = 1
    /\ last.mv # << >>
    /\ last.mv[1].flags = QUEEN_PROMOTION_CAP
    /\ \E legal_moves \in {get_all_legal_moves(start)} :
          \E i, j \in 1 .. Len(legal_moves) :
             /\ i < j
             /\ legal_moves[j] = last.mv[1]
             /\ legal_moves[i].from = last.mv[1].from
             /\ legal_moves[i].to = last.mv[1].to
====
